---- MODULE Spec2Model ----
(***************************************************************************)
(* Basic File Integrity Monitor (go/07_basic_file_integrity_monitor).      *)
(* The monitored files, the persisted baseline document and the two        *)
(* operations createBaseline / verifyBaseline of src/main.go (Spec), and a *)
(* whole run of main over a directory tree: collectFiles, then one of the  *)
(* two operations, then the report and the exit status (MainSpec).  The   *)
(* JSON text of a baseline with keys as byte strings (RoundTripSpec) and   *)
(* one tracked file with its metadata (ContentSpec) complete the picture.  *)
(***************************************************************************)
EXTENDS Integers, Sequences, FiniteSets, TLC

\* ---------------------------------------------------------------- bounds
MaxFiles == 2        \* longest list of current paths handed to an operation
MaxLines == 2        \* most lines in the -i input list of a run

\* ------------------------------------------------------------ the domain
Paths == {"/m/a.txt", "/m/b.txt", "/m/c.txt"}

\* the byte contents a file can have
Contents == {"hello", "HELLO"}

\* a path that does not name a file / names a file that cannot be opened
ENOENT == "ENOENT"
EACCES == "EACCES"
FileStates == Contents \cup {ENOENT, EACCES}

\* sha256.New + io.Copy + hex.EncodeToString: the hex digest of the bytes
Sha256Hex(bytes) ==
  CASE bytes = "hello" ->
         "2cf24dba5fb0a30e26e83b2ac5b9e29e1b161e5c1fa7425e73043362938b9824"
    [] bytes = "HELLO" ->
         "3733cd977ff8eb18b987357e22ced99f46097f31ecb239e878ae63760e83e4d5"
    [] bytes = "" ->
         "e3b0c44298fc1c149afbf4c8996fb92427ae41e4649b934ca495991b7852b855"
    [] OTHER -> "sha256(" \o bytes \o ")"

Digests == {Sha256Hex(c) : c \in Contents}

\* Baseline map[string]string
EmptyMap == [k \in {} |-> ""]
Baseline == UNION {[S -> Digests \cup {""}] : S \in SUBSET Paths}

\* Report struct
Report(path, status, old, new, msg) ==
  [Path |-> path, Status |-> status, OldHash |-> old, NewHash |-> new,
   Message |-> msg]

\* ------------------------------------------------- the baseline document
\* A JSON value of the document is a JSON string (its text) or a JSON
\* value of another type, written JsonNumber.
JsonNumber == "#number"
JsonValues == Digests \cup {JsonNumber}

\* The file at the baseline location: absent, or bytes that are not a JSON
\* text (syntax = FALSE), or a JSON object key -> value.
NoArtifact == [exists |-> FALSE, syntax |-> FALSE, obj |-> EmptyMap]
Garbage == [exists |-> TRUE, syntax |-> FALSE, obj |-> EmptyMap]

\* a file with its metadata: the bytes, the modification time and the mode
Modes == {"0644", "0600", "0000"}
NoFile == [exists |-> FALSE, bytes |-> "", mtime |-> 0, mode |-> "0000"]
\* nothing done to any path yet
NoOps == [p \in Paths |-> {}]
\* no certificate looked at
NoCert == [reach |-> "none", left |-> 0, warn |-> 0, status |-> "", days |-> 0]

VARIABLES
  fs,        \* monitored path -> bytes of the file, ENOENT or EACCES
  artifact,  \* the file at the baseline location
  op,        \* the operation that produced this state
  files,     \* the list of current paths the last operation was given
  report,    \* the []Report the last verifyBaseline returned
  err,       \* the error the last operation returned ("nil" = none)
  mdir,      \* what the path /m is: a directory, one that cannot be listed,
             \* or a symbolic link to a directory
  args,      \* the command line of the last run of main
  hashed,    \* the paths hashFile was called with during the last run
  wr,        \* the outcome of os.WriteFile in the last run
  out,       \* the lines writeReport wrote during the last run
  exit,      \* the exit status of the last run
  meta,      \* monitored path -> the file behind fs: bytes, mtime, mode
  since,     \* monitored path -> what was done to it since the baseline
             \* document was last written (history)
  mem,       \* the Baseline map in memory, keys as byte strings
  text,      \* the members of the JSON text written from mem
  cert,      \* ssl checker: the certificate looked at and the result
  workers,   \* network tools: target -> where its goroutine is
  ch,        \* network tools: the results in the buffered channel
  got,       \* network tools: the results main has received, in order
  mainpc     \* network tools: where main is

vars == <<fs, artifact, op, files, report, err, mdir, args, hashed, wr, out,
          exit, meta, since, mem, text, cert, workers, ch, got, mainpc>>

FileLists == UNION {[1..n -> Paths] : n \in 0..MaxFiles}

\* hashFile: the digest of the file's bytes, or an error
\* hashFile whose digest also covers the modification time of the file
hashFile_withTime(p) ==
  IF p \in Paths /\ fs[p] \in Contents
    THEN [h |-> Sha256Hex(IF meta[p].mtime = 0 THEN fs[p]
                          ELSE CHOOSE c \in Contents : c # fs[p]),
          err |-> FALSE]
    ELSE [h |-> "", err |-> TRUE]

hashFile(p) ==
  IF p \in Paths /\ fs[p] \notin {ENOENT, EACCES}
    THEN [h |-> Sha256Hex(fs[p]), err |-> FALSE]
    ELSE [h |-> "", err |-> TRUE]

\* json.MarshalIndent of a Baseline: an object with one string per key
MarshalIndent(b) == [exists |-> TRUE, syntax |-> TRUE, obj |-> b]

\* json.Unmarshal into a Baseline.  A text that is not JSON leaves the map
\* nil; a value that is not a string is stored as "" and reported as a
\* type error after the whole object has been decoded.
Unmarshal(doc) ==
  IF ~doc.syntax
    THEN [base |-> EmptyMap, err |-> "syntax"]
    ELSE [base |-> [k \in DOMAIN doc.obj |->
                      IF doc.obj[k] = JsonNumber THEN "" ELSE doc.obj[k]],
          err |-> IF \E k \in DOMAIN doc.obj : doc.obj[k] = JsonNumber
                    THEN "type" ELSE "nil"]

\* hashAll that stores a key for every listed path, the empty digest when
\* the hash failed
hashAll_keepFailed(fl) ==
  [p \in {fl[i] : i \in DOMAIN fl} |-> hashFile(p).h]

\* the hashes collected by the loop of createBaseline
hashAll(fl) ==
  [p \in {fl[i] : i \in DOMAIN fl} \cap {q \in Paths : ~hashFile(q).err}
     |-> hashFile(p).h]

\* classify with the digest comparison inverted
classify_inverted(base, f) ==
  LET hf == hashFile(f) IN
  IF hf.err
    THEN IF f \in DOMAIN base
           THEN <<Report(f, "DELETED", base[f], "", "File deleted")>>
           ELSE <<>>
    ELSE IF f \in DOMAIN base
           THEN IF base[f] = hf.h
                  THEN <<Report(f, "MODIFIED", base[f], hf.h, "Hash mismatch")>>
                  ELSE <<Report(f, "OK", base[f], "", "")>>
           ELSE <<Report(f, "ADDED", "", hf.h, "New file")>>

\* classify without the digest comparison: every tracked file is OK
classify_uncompared(base, f) ==
  LET hf == hashFile(f) IN
  IF hf.err
    THEN IF f \in DOMAIN base
           THEN <<Report(f, "DELETED", base[f], "", "File deleted")>>
           ELSE <<>>
    ELSE IF f \in DOMAIN base
           THEN <<Report(f, "OK", base[f], "", "")>>
           ELSE <<Report(f, "ADDED", "", hf.h, "New file")>>

\* classify that tests the baseline before the hash error: an untracked
\* path is ADDED even when its hash failed
classify_addedOnError(base, f) ==
  LET hf == hashFile(f) IN
  IF f \notin DOMAIN base
    THEN <<Report(f, "ADDED", "", hf.h, "New file")>>
    ELSE IF hf.err
           THEN <<Report(f, "DELETED", base[f], "", "File deleted")>>
           ELSE IF base[f] # hf.h
                  THEN <<Report(f, "MODIFIED", base[f], hf.h, "Hash mismatch")>>
                  ELSE <<Report(f, "OK", base[f], "", "")>>

\* classify that skips every path whose hash failed
classify_dropFailed(base, f) ==
  LET hf == hashFile(f) IN
  IF hf.err
    THEN <<>>
    ELSE IF f \in DOMAIN base
           THEN IF base[f] # hf.h
                  THEN <<Report(f, "MODIFIED", base[f], hf.h, "Hash mismatch")>>
                  ELSE <<Report(f, "OK", base[f], "", "")>>
           ELSE <<Report(f, "ADDED", "", hf.h, "New file")>>

\* one iteration of the loop over files in verifyBaseline: the entries it
\* appends for f
classify(base, f) ==
  LET hf == hashFile(f) IN
  IF hf.err
    THEN IF f \in DOMAIN base
           THEN <<Report(f, "DELETED", base[f], "", "File deleted")>>
           ELSE <<>>
    ELSE IF f \in DOMAIN base
           THEN IF base[f] # hf.h
                  THEN <<Report(f, "MODIFIED", base[f], hf.h, "Hash mismatch")>>
                  ELSE <<Report(f, "OK", base[f], "", "")>>
           ELSE <<Report(f, "ADDED", "", hf.h, "New file")>>

\* the loop over files
RECURSIVE scanFiles(_, _)
scanFiles(base, fl) ==
  IF fl = <<>> THEN <<>>
  ELSE classify(base, Head(fl)) \o scanFiles(base, Tail(fl))

\* found: the paths the loop has marked
found(fl) == {fl[i] : i \in DOMAIN fl}

\* unseen without the found test: the sweep reports every baseline key
unseen_all(base, fnd) == DOMAIN base

\* the keys the sweep over the baseline map reports
unseen(base, fnd) == {k \in DOMAIN base : k \notin fnd}

\* the orders in which a range over a Go map can visit the keys S
Orders(S) ==
  {s \in [1..Cardinality(S) -> S] : \A i, j \in DOMAIN s : s[i] = s[j] => i = j}

\* the entries of the sweep, visiting the unseen keys in the given order
sweep(base, order) ==
  [i \in 1..Len(order) |->
     Report(order[i], "DELETED", base[order[i]], "", "File deleted")]

\* ------------------------------------------------------------ path texts
\* A path as written on a command line or in the input list: rooted or not,
\* and its elements between separators.  EmptyText is the empty string.
PathText(abs, parts) == [abs |-> abs, parts |-> parts]
EmptyText == PathText(FALSE, <<>>)

\* the working directory of the process
Cwd == PathText(TRUE, <<>>)

\* filepath.Clean: drops "." elements, resolves ".." against the element
\* before it (at the root it is dropped); an empty result is "."
RECURSIVE cleanParts(_, _, _)
cleanParts(abs, parts, acc) ==
  IF parts = <<>> THEN acc
  ELSE LET e == Head(parts) IN
       cleanParts(abs, Tail(parts),
         IF e = "." THEN acc
         ELSE IF e = ".."
           THEN IF acc # <<>> /\ acc[Len(acc)] # ".."
                  THEN SubSeq(acc, 1, Len(acc) - 1)
                  ELSE IF abs THEN acc ELSE Append(acc, "..")
           ELSE Append(acc, e))

Clean(p) ==
  LET c == cleanParts(p.abs, p.parts, <<>>) IN
  IF ~p.abs /\ c = <<>> THEN PathText(FALSE, <<".">>) ELSE PathText(p.abs, c)

\* filepath.IsAbs, filepath.Join, filepath.Dir, filepath.Abs
IsAbs(p) == p.abs

Join(a, b) ==
  IF a = EmptyText /\ b = EmptyText THEN EmptyText
  ELSE IF a = EmptyText THEN Clean(b)
  ELSE Clean(PathText(a.abs, a.parts \o b.parts))

Dir(p) ==
  Clean(PathText(p.abs, IF p.parts = <<>> THEN <<>>
                        ELSE SubSeq(p.parts, 1, Len(p.parts) - 1)))

Abs(p) == IF IsAbs(p) THEN Clean(p) ELSE Join(Cwd, p)

\* the string of a path text
RECURSIVE joinParts(_)
joinParts(parts) ==
  IF parts = <<>> THEN ""
  ELSE IF Len(parts) = 1 THEN parts[1]
  ELSE parts[1] \o "/" \o joinParts(Tail(parts))

Str(p) == IF p.abs THEN "/" \o joinParts(p.parts) ELSE joinParts(p.parts)

\* ------------------------------------------------------ the directory tree
\* The tree is /, the path /m in it, and the monitored files in /m.
\* os.Lstat does not follow a symbolic link, os.Stat does.
Lstat(s) ==
  IF s = "/" THEN "dir"
  ELSE IF s = "/m" THEN (IF mdir = "symlink" THEN "symlink" ELSE "dir")
  ELSE IF s \in Paths /\ fs[s] # ENOENT THEN "file"
  ELSE ENOENT

Stat(s) == IF Lstat(s) = "symlink" THEN "dir" ELSE Lstat(s)

\* the names in a directory, sorted, as filepath.Walk reads them; reading
\* fails for a directory without read permission
ReadDirNames(s) ==
  IF s = "/" THEN [names |-> <<"/m">>, err |-> "nil"]
  ELSE IF mdir = EACCES THEN [names |-> <<>>, err |-> EACCES]
  ELSE [names |-> SelectSeq(<<"/m/a.txt", "/m/b.txt", "/m/c.txt">>,
                            LAMBDA q : fs[q] # ENOENT),
        err |-> "nil"]

\* filepath.Walk(abs, fn) with the callback of addFile: appends every path
\* that Lstat does not report as a directory, stops at the first error
RECURSIVE walk(_, _), walkNames(_, _)
walk(s, acc) ==
  IF Lstat(s) # "dir" THEN [files |-> Append(acc, s), err |-> "nil"]
  ELSE IF ReadDirNames(s).err # "nil"
    THEN [files |-> acc, err |-> ReadDirNames(s).err]
    ELSE walkNames(ReadDirNames(s).names, acc)

walkNames(names, acc) ==
  IF names = <<>> THEN [files |-> acc, err |-> "nil"]
  ELSE LET first == walk(Head(names), acc) IN
       IF first.err # "nil" THEN first
       ELSE walkNames(Tail(names), first.files)

\* addFile that returns the os.Stat error of a path that does not exist
addFile_missingFatal(p, acc) ==
  LET abs == Str(Abs(p)) IN
  IF Stat(abs) = ENOENT THEN [files |-> acc, err |-> ENOENT]
  ELSE IF Stat(abs) = "dir" THEN walk(abs, acc)
  ELSE [files |-> Append(acc, abs), err |-> "nil"]

\* addFile(p) with files = acc: files afterwards, and the error returned
addFile(p, acc) ==
  LET abs == Str(Abs(p)) IN
  IF Stat(abs) = ENOENT THEN [files |-> acc, err |-> "nil"]
  ELSE IF Stat(abs) = "dir" THEN walk(abs, acc)
  ELSE [files |-> Append(acc, abs), err |-> "nil"]

\* targets that leaves a relative list entry as it is
targets_noJoin(root, list, base) ==
  IF Len(list) > 0 THEN list ELSE <<root>>

\* the targets of collectFiles: the list entries, a relative one joined to
\* base when base is not empty, or else the root alone
targets(root, list, base) ==
  IF Len(list) > 0
    THEN [i \in DOMAIN list |->
            IF base # EmptyText /\ ~IsAbs(list[i])
              THEN Join(base, list[i]) ELSE list[i]]
    ELSE <<root>>

\* the loop over the targets, returning at the first error
RECURSIVE addAll(_, _)
addAll(ts, acc) ==
  IF ts = <<>> THEN [files |-> acc, err |-> "nil"]
  ELSE LET first == addFile(Head(ts), acc) IN
       IF first.err # "nil" THEN first
       ELSE addAll(Tail(ts), first.files)

\* collectFiles(root, list, base): (files, nil) or (nil, err)
collectFiles(root, list, base) ==
  LET r == addAll(targets(root, list, base), <<>>) IN
  IF r.err # "nil" THEN [files |-> <<>>, err |-> r.err] ELSE r

\* writeReport: the header, then the lines of each entry
ReportHeader == <<"", "--- File Integrity Report ---">>

RECURSIVE entryLines(_)
entryLines(r) ==
  IF r = <<>> THEN <<>>
  ELSE LET e == Head(r) IN
       <<<<"Path:", e.Path>>, <<"Status:", e.Status>>>>
       \o (IF e.OldHash # "" THEN <<<<"Old:", e.OldHash>>>> ELSE <<>>)
       \o (IF e.NewHash # "" THEN <<<<"New:", e.NewHash>>>> ELSE <<>>)
       \o (IF e.Message # "" THEN <<<<"Msg:", e.Message>>>> ELSE <<>>)
       \o entryLines(Tail(r))

writeReport(r) == <<ReportHeader>> \o entryLines(r)

\* no run of main has happened since the environment last acted
NoArgs ==
  [path |-> EmptyText, input |-> EmptyText, lines |-> <<>>,
   createB |-> "", verifyB |-> "", output |-> ""]

InitFiles ==
  /\ fs = [p \in Paths |-> ENOENT]
  /\ artifact = NoArtifact
  /\ op = "init"
  /\ files = <<>>
  /\ report = <<>>
  /\ err = "nil"
  /\ mdir = "dir"
  /\ args = NoArgs
  /\ hashed = {}
  /\ wr = "none"
  /\ out = <<>>
  /\ exit = "none"
  /\ meta = [p \in Paths |-> NoFile]
  /\ since = NoOps

\* the network tools have not run
InitNet ==
  /\ cert = NoCert
  /\ workers = <<>>
  /\ ch = <<>>
  /\ got = <<>>
  /\ mainpc = "none"
NoNet == UNCHANGED <<cert, workers, ch, got, mainpc>>

Init == InitFiles /\ mem = EmptyMap /\ text = <<>> /\ InitNet

\* ------------------------------------------------------- the environment
\* the results of the last run are gone once the environment has acted
Forget ==
  /\ op' = "env"
  /\ files' = <<>>
  /\ report' = <<>>
  /\ err' = "nil"
  /\ args' = NoArgs
  /\ hashed' = {}
  /\ wr' = "none"
  /\ out' = <<>>
  /\ exit' = "none"

Env == Forget /\ UNCHANGED <<mdir, meta, since, mem, text>> /\ NoNet

\* the functions createBaseline and verifyBaseline called on their own
NoMain ==
  UNCHANGED <<mdir, args, hashed, wr, out, exit, meta, mem, text>> /\ NoNet

WriteFile(p, c) ==
  /\ fs[p] # c
  /\ fs' = [fs EXCEPT ![p] = c]
  /\ UNCHANGED artifact
  /\ Env

RemoveFile(p) ==
  /\ fs[p] # ENOENT
  /\ fs' = [fs EXCEPT ![p] = ENOENT]
  /\ UNCHANGED artifact
  /\ Env

RevokeRead(p) ==
  /\ fs[p] \in Contents
  /\ fs' = [fs EXCEPT ![p] = EACCES]
  /\ UNCHANGED artifact
  /\ Env

\* somebody edits one entry of the baseline document
EditEntry(k, v) ==
  /\ artifact.exists /\ artifact.syntax
  /\ artifact' = [artifact EXCEPT !.obj =
                    [q \in DOMAIN artifact.obj \cup {k} |->
                       IF q = k THEN v ELSE artifact.obj[q]]]
  /\ artifact' # artifact
  /\ UNCHANGED fs
  /\ Env

DropEntry(k) ==
  /\ artifact.exists /\ artifact.syntax
  /\ k \in DOMAIN artifact.obj
  /\ artifact' = [artifact EXCEPT !.obj =
                    [q \in DOMAIN artifact.obj \ {k} |-> artifact.obj[q]]]
  /\ UNCHANGED fs
  /\ Env

CorruptArtifact ==
  /\ artifact.exists /\ artifact # Garbage
  /\ artifact' = Garbage
  /\ UNCHANGED fs
  /\ Env

RemoveArtifact ==
  /\ artifact.exists
  /\ artifact' = NoArtifact
  /\ UNCHANGED fs
  /\ Env

\* ------------------------------------------------------------ operations
\* A run that directly follows another run repeats its list of paths; a run
\* over another list is a new invocation, started after the environment has
\* acted (every state of a run is reached this way too, since the
\* environment can undo its own change).
SameCommand(fl) == op \in {"init", "env"} \/ fl = files

\* createBaseline that adds the new digests to the entries of the old
\* document instead of replacing it
CreateBaseline_merges(fl) ==
  /\ SameCommand(fl)
  /\ op' = "create"
  /\ files' = fl
  /\ report' = <<>>
  /\ \/ /\ artifact' = MarshalIndent(
                          [k \in DOMAIN Unmarshal(artifact).base
                                   \cup DOMAIN hashAll(fl) |->
                             IF k \in DOMAIN hashAll(fl) THEN hashAll(fl)[k]
                             ELSE Unmarshal(artifact).base[k]])
        /\ err' = "nil" /\ since' = NoOps
     \/ artifact' = artifact /\ err' = "write" /\ UNCHANGED since
     \/ artifact' = Garbage /\ err' = "write" /\ UNCHANGED since
  /\ UNCHANGED fs
  /\ NoMain

\* createBaseline(files, out); os.WriteFile either replaces the document or
\* fails, leaving the old file, or a truncated one when it had been opened
CreateBaseline(fl) ==
  /\ SameCommand(fl)
  /\ op' = "create"
  /\ files' = fl
  /\ report' = <<>>
  /\ \/ artifact' = MarshalIndent(hashAll(fl)) /\ err' = "nil" /\ since' = NoOps
     \/ artifact' = artifact /\ err' = "write" /\ UNCHANGED since
     \/ artifact' = Garbage /\ err' = "write" /\ UNCHANGED since
  /\ UNCHANGED fs
  /\ NoMain

\* verifyBaseline that returns the first hashFile error instead of
\* absorbing it
VerifyBaseline_hashFatal(fl) ==
  /\ SameCommand(fl)
  /\ op' = "verify"
  /\ files' = fl
  /\ IF ~artifact.exists
       THEN report' = <<>> /\ err' = "read"
       ELSE IF \E i \in DOMAIN fl : hashFile(fl[i]).err
         THEN report' = <<>> /\ err' = "read"
         ELSE LET base == Unmarshal(artifact).base IN
              /\ \E order \in Orders(unseen(base, found(fl))) :
                   report' = scanFiles(base, fl) \o sweep(base, order)
              /\ err' = "nil"
  /\ UNCHANGED <<fs, artifact, since>>
  /\ NoMain

\* verifyBaseline that writes the map it has loaded back to the document
VerifyBaseline_rewrites(fl) ==
  /\ SameCommand(fl)
  /\ op' = "verify"
  /\ files' = fl
  /\ IF ~artifact.exists
       THEN report' = <<>> /\ err' = "read" /\ UNCHANGED artifact
       ELSE LET base == Unmarshal(artifact).base IN
            /\ \E order \in Orders(unseen(base, found(fl))) :
                 report' = scanFiles(base, fl) \o sweep(base, order)
            /\ err' = "nil"
            /\ artifact' = MarshalIndent(base)
  /\ UNCHANGED <<fs, since>>
  /\ NoMain

\* verifyBaseline that runs the closing loop over the baseline before the
\* loop over files
VerifyBaseline_sweepFirst(fl) ==
  /\ SameCommand(fl)
  /\ op' = "verify"
  /\ files' = fl
  /\ IF ~artifact.exists
       THEN report' = <<>> /\ err' = "read"
       ELSE LET base == Unmarshal(artifact).base IN
            /\ \E order \in Orders(unseen(base, found(fl))) :
                 report' = sweep(base, order) \o scanFiles(base, fl)
            /\ err' = "nil"
  /\ UNCHANGED <<fs, artifact, since>>
  /\ NoMain

\* verifyBaseline(bfile, files)
VerifyBaseline(fl) ==
  /\ SameCommand(fl)
  /\ op' = "verify"
  /\ files' = fl
  /\ IF ~artifact.exists
       THEN report' = <<>> /\ err' = "read"
       ELSE LET base == Unmarshal(artifact).base IN
            /\ \E order \in Orders(unseen(base, found(fl))) :
                 report' = scanFiles(base, fl) \o sweep(base, order)
            /\ err' = "nil"
  /\ UNCHANGED <<fs, artifact, since>>
  /\ NoMain

Next ==
  \/ \E p \in Paths, c \in Contents : WriteFile(p, c)
  \/ \E p \in Paths : RemoveFile(p)
  \/ \E p \in Paths : RevokeRead(p)
  \/ \E k \in Paths, v \in JsonValues : EditEntry(k, v)
  \/ \E k \in Paths : DropEntry(k)
  \/ CorruptArtifact
  \/ RemoveArtifact
  \/ \E fl \in FileLists : CreateBaseline(fl)
  \/ \E fl \in FileLists : VerifyBaseline(fl)

Spec == Init /\ [][Next]_vars

\* ---------------------------------------------------------- a run of main
\* the files of /m the environment of a run acts on
MainFiles == {"/m/a.txt", "/m/b.txt"}

\* the command lines of a run: -path, -i and the lines of the input list
DefaultPath == PathText(FALSE, <<".">>)
PathArgs ==
  {DefaultPath, PathText(FALSE, <<"m">>), PathText(FALSE, <<"x">>),
   PathText(TRUE, <<"m", "a.txt">>)}
InputFile == PathText(FALSE, <<"m", "list.txt">>)
Lines ==
  {PathText(FALSE, <<"a.txt">>), PathText(FALSE, <<".">>),
   PathText(FALSE, <<"..">>), PathText(TRUE, <<"m", "a.txt">>)}
LineLists == UNION {[1..n -> Lines] : n \in 1..MaxLines}
BaselineFile == "b.json"
BaselineArgs == {"", BaselineFile}
CommandLines ==
  {[path |-> p, input |-> EmptyText, lines |-> <<>>,
    createB |-> c, verifyB |-> v, output |-> ""] :
     p \in PathArgs, c \in BaselineArgs, v \in BaselineArgs}
  \cup {[path |-> DefaultPath, input |-> InputFile, lines |-> l,
          createB |-> c, verifyB |-> v, output |-> ""] :
          l \in {<<>>} \cup LineLists, c \in BaselineArgs,
          v \in BaselineArgs}

\* main, lines 181-184, that lets a run with both flags create
modeOf_bothCreate(c, v) ==
  IF c # "" THEN "create" ELSE IF v # "" THEN "verify" ELSE "usage"

\* main, lines 181-184 and 219: what a run with these two flags does
modeOf(c, v) ==
  IF (c = "") = (v = "") THEN "usage"
  ELSE IF c # "" THEN "create" ELSE "verify"

\* main, lines 186-200: the list read from the input file and its directory
listOf(a) == [i \in DOMAIN a.lines |-> Clean(a.lines[i])]
baseDirOf(a) == IF a.input # EmptyText THEN Dir(a.input) ELSE EmptyText

\* main, line 213
collected(a) == collectFiles(a.path, listOf(a), baseDirOf(a))

\* as SameCommand: a run directly after a run repeats its command line
SameArgs(a) ==
  \/ op \in {"init", "env"}
  \/ a.path = args.path /\ a.input = args.input /\ a.lines = args.lines

\* somebody replaces /m: a directory, one without read permission, or a
\* symbolic link to a directory holding the same files
SetDir(k) ==
  /\ mdir # k
  /\ mdir' = k
  /\ UNCHANGED <<fs, artifact, meta, since, mem, text>>
  /\ NoNet
  /\ Forget

\* createBaseline that gives up at the first file it cannot hash
createBaseline_hashFatal(doc, fl, w) ==
  IF \E i \in DOMAIN fl : hashFile(fl[i]).err
    THEN [artifact |-> doc, err |-> "hash"]
    ELSE [artifact |-> CASE w = "ok" -> MarshalIndent(hashAll(fl))
                         [] w = "EACCES" -> doc
                         [] w = "ENOSPC" -> Garbage,
          err |-> IF w = "ok" THEN "nil" ELSE "write"]

\* createBaseline(files, out) as main sees it: the artifact afterwards and
\* the error returned; w is how os.WriteFile ends (written, refused, or
\* cut short on a full disk)
createBaseline(doc, fl, w) ==
  [artifact |-> CASE w = "ok" -> MarshalIndent(hashAll(fl))
                  [] w = "EACCES" -> doc
                  [] w = "ENOSPC" -> Garbage,
   err |-> IF w = "ok" THEN "nil" ELSE "write"]

\* the command lines with which main takes the given branch
CommandsOf(m) == {a \in CommandLines : modeOf(a.createB, a.verifyB) = m}
CreateCommands == CommandsOf("create")
VerifyCommands == CommandsOf("verify")
UsageCommands == CommandsOf("usage")

\* main with --create-baseline
RunCreate(a) ==
  /\ modeOf(a.createB, a.verifyB) = "create"
  /\ SameArgs(a)
  /\ op' = "create"
  /\ args' = a
  /\ report' = <<>>
  /\ out' = <<>>
  /\ UNCHANGED <<fs, mdir, meta, since, mem, text>>
  /\ NoNet
  /\ \E c \in {collected(a)} :
     IF c.err # "nil"
       THEN /\ files' = <<>>
            /\ err' = "collect"
            /\ hashed' = {}
            /\ wr' = "none"
            /\ exit' = "1"
            /\ UNCHANGED artifact
       ELSE /\ files' = c.files
            /\ hashed' = found(c.files)
            /\ \E w \in {"ok", "EACCES", "ENOSPC"} :
               \E b \in {createBaseline(artifact, c.files, w)} :
                 /\ wr' = w
                 /\ artifact' = b.artifact
                 /\ err' = b.err
                 /\ exit' = IF b.err = "nil" THEN "0" ELSE "1"

\* verifyBaseline that hashes the files before it reads the baseline
verifyBaseline_hashFirst(doc, fl, order) ==
  [report |-> scanFiles(Unmarshal(doc).base, fl)
                \o sweep(Unmarshal(doc).base, order),
   err |-> IF doc.exists THEN "nil" ELSE "read",
   hashed |-> found(fl)]

\* verifyBaseline(bfile, files) as main sees it: the entries, the error and
\* the files handed to hashFile; order is the order of the closing loop
verifyBaseline(doc, fl, order) ==
  IF ~doc.exists
    THEN [report |-> <<>>, err |-> "read", hashed |-> {}]
    ELSE [report |-> scanFiles(Unmarshal(doc).base, fl)
                       \o sweep(Unmarshal(doc).base, order),
          err |-> "nil",
          hashed |-> found(fl)]

\* main with --verify-baseline
RunVerify(a) ==
  /\ modeOf(a.createB, a.verifyB) = "verify"
  /\ SameArgs(a)
  /\ op' = "verify"
  /\ args' = a
  /\ wr' = "none"
  /\ UNCHANGED <<fs, mdir, artifact, meta, since, mem, text>>
  /\ NoNet
  /\ \E c \in {collected(a)} :
     IF c.err # "nil"
       THEN /\ files' = <<>>
            /\ err' = "collect"
            /\ hashed' = {}
            /\ report' = <<>>
            /\ out' = <<>>
            /\ exit' = "1"
       ELSE /\ files' = c.files
            /\ \E order \in Orders(unseen(Unmarshal(artifact).base,
                                           found(c.files))) :
               \E v \in {verifyBaseline(artifact, c.files, order)} :
                 /\ report' = v.report
                 /\ err' = v.err
                 /\ hashed' = v.hashed
                 /\ IF v.err # "nil"
                      THEN out' = <<>> /\ exit' = "1"
                      ELSE /\ out' = writeReport(v.report)
                           /\ exit' = IF Len(v.report) > 0 THEN "1" ELSE "0"

\* main with both or neither of the two flags: the message, and exit 1
\* before the input list is opened, so that no line of it is read
RunUsage(a) ==
  /\ modeOf(a.createB, a.verifyB) = "usage"
  /\ SameArgs(a)
  /\ op' = "usage"
  /\ args' = [a EXCEPT !.lines = <<>>]
  /\ files' = <<>>
  /\ report' = <<>>
  /\ err' = "mode"
  /\ hashed' = {}
  /\ wr' = "none"
  /\ out' = <<>>
  /\ exit' = "1"
  /\ UNCHANGED <<fs, mdir, artifact, meta, since, mem, text>>
  /\ NoNet

MainNext ==
  \/ \E p \in MainFiles, c \in Contents : WriteFile(p, c)
  \/ \E p \in MainFiles : RemoveFile(p)
  \/ RevokeRead("/m/a.txt")
  \/ \E k \in {"dir", "EACCES", "symlink"} : SetDir(k)
  \/ RemoveArtifact
  \/ \E a \in CreateCommands : RunCreate(a)
  \/ \E a \in VerifyCommands : RunVerify(a)
  \/ \E a \in UsageCommands : RunUsage(a)

MainSpec == Init /\ [][MainNext]_vars

\* ------------------------------------------ blank lines of the -i list
\* bufio.Scanner yields the empty string for a blank line of the list, and
\* main appends filepath.Clean of every line it reads.
BlankLines == {PathText(FALSE, <<"a.txt">>), EmptyText}
BlankLists == UNION {[1..n -> BlankLines] : n \in 1..MaxLines}
BlankCommands ==
  {[path |-> DefaultPath, input |-> InputFile, lines |-> l,
    createB |-> c, verifyB |-> v, output |-> ""] :
     l \in BlankLists, c \in BaselineArgs, v \in BaselineArgs}

BlankNext ==
  \/ \E p \in MainFiles, c \in Contents : WriteFile(p, c)
  \/ \E p \in MainFiles : RemoveFile(p)
  \/ \E a \in BlankCommands : RunCreate(a)
  \/ \E a \in BlankCommands : RunVerify(a)

BlankSpec == Init /\ [][BlankNext]_vars

\* ------------------------------------------- the JSON text of a baseline
\* Keys as the byte strings they are in Go, and the member names that
\* encoding/json writes for them and reads back.
MaxKeyLen == 2       \* longest key, in bytes
MaxEntries == 2      \* most entries of a baseline that is written

\* the quotation mark, the letter a, and the two bytes of U+00E9
KeyBytes == {34, 97, 169, 195}
Keys == UNION {[1..n -> KeyBytes] : n \in 0..MaxKeyLen}

RECURSIVE KeySets(_)
KeySets(n) ==
  IF n = 0 THEN {{}}
  ELSE KeySets(n - 1) \cup {S \cup {k} : S \in KeySets(n - 1), k \in Keys}

ByteBaselines == UNION {[S -> Digests] : S \in KeySets(MaxEntries)}

\* utf8.DecodeRuneInString at s[i]: the length of the encoding that starts
\* there, 0 when it is invalid (RuneError of width 1)
At(s, i) == IF i <= Len(s) THEN s[i] ELSE -1
Cont(b) == b \in 128..191
RuneSize(s, i) ==
  LET b0 == s[i]
      b1 == At(s, i + 1)
      b2 == At(s, i + 2)
      b3 == At(s, i + 3)
  IN IF b0 < 128 THEN 1
     ELSE IF b0 \in 194..223 /\ Cont(b1) THEN 2
     ELSE IF b0 = 224 /\ b1 \in 160..191 /\ Cont(b2) THEN 3
     ELSE IF b0 \in (225..236) \cup {238, 239} /\ Cont(b1) /\ Cont(b2) THEN 3
     ELSE IF b0 = 237 /\ b1 \in 128..159 /\ Cont(b2) THEN 3
     ELSE IF b0 = 240 /\ b1 \in 144..191 /\ Cont(b2) /\ Cont(b3) THEN 4
     ELSE IF b0 \in 241..243 /\ Cont(b1) /\ Cont(b2) /\ Cont(b3) THEN 4
     ELSE IF b0 = 244 /\ b1 \in 128..143 /\ Cont(b2) /\ Cont(b3) THEN 4
     ELSE 0

\* a hexadecimal digit as json writes it, and its value when read
HexDigit(n) == IF n < 10 THEN 48 + n ELSE 87 + n
HexVal(b) ==
  IF b \in 48..57 THEN b - 48 ELSE IF b \in 97..102 THEN b - 87 ELSE b - 55

\* json's appendString with escapeHTML, from s[i] on, without the quotes:
\* an invalid byte is written as \ufffd
RECURSIVE appendString(_, _)
appendString(s, i) ==
  IF i > Len(s) THEN <<>>
  ELSE IF s[i] < 128
    THEN (IF s[i] \in {34, 92} THEN <<92, s[i]>>
          ELSE IF s[i] = 10 THEN <<92, 110>>
          ELSE IF s[i] = 13 THEN <<92, 114>>
          ELSE IF s[i] = 9 THEN <<92, 116>>
          ELSE IF s[i] < 32 \/ s[i] \in {38, 60, 62}
            THEN <<92, 117, 48, 48, HexDigit(s[i] \div 16),
                   HexDigit(s[i] % 16)>>
          ELSE <<s[i]>>) \o appendString(s, i + 1)
  ELSE IF RuneSize(s, i) = 0
    THEN <<92, 117, 102, 102, 102, 100>> \o appendString(s, i + 1)
  ELSE IF RuneSize(s, i) = 3 /\ s[i] = 226 /\ s[i + 1] = 128
          /\ s[i + 2] \in {168, 169}
    THEN <<92, 117, 50, 48, 50, HexDigit(s[i + 2] - 160)>>
           \o appendString(s, i + 3)
  ELSE SubSeq(s, i, i + RuneSize(s, i) - 1)
         \o appendString(s, i + RuneSize(s, i))

\* utf8.AppendRune for a rune of the basic plane
EncodeRune(r) ==
  IF r < 128 THEN <<r>>
  ELSE IF r < 2048 THEN <<192 + (r \div 64), 128 + (r % 64)>>
  ELSE <<224 + (r \div 4096), 128 + ((r \div 64) % 64), 128 + (r % 64)>>

\* json's unquote, from t[i] on: escapes are undone, and a byte that is
\* not valid UTF-8 is read as U+FFFD
RECURSIVE unquote(_, _)
unquote(t, i) ==
  IF i > Len(t) THEN <<>>
  ELSE IF t[i] = 92 /\ t[i + 1] = 117
    THEN EncodeRune(((HexVal(t[i + 2]) * 16 + HexVal(t[i + 3])) * 16
                       + HexVal(t[i + 4])) * 16 + HexVal(t[i + 5]))
           \o unquote(t, i + 6)
  ELSE IF t[i] = 92
    THEN <<CASE t[i + 1] = 110 -> 10
             [] t[i + 1] = 114 -> 13
             [] t[i + 1] = 116 -> 9
             [] t[i + 1] = 98 -> 8
             [] t[i + 1] = 102 -> 12
             [] OTHER -> t[i + 1]>> \o unquote(t, i + 2)
  ELSE IF RuneSize(t, i) = 0
    THEN <<239, 191, 189>> \o unquote(t, i + 1)
  ELSE SubSeq(t, i, i + RuneSize(t, i) - 1) \o unquote(t, i + RuneSize(t, i))

\* json sorts the keys of a map as byte strings before it writes them
Less(a, b) ==
  \E i \in 1..Len(b) :
    /\ i > Len(a) \/ a[i] < b[i]
    /\ \A j \in 1..(i - 1) : a[j] = b[j]
sortedKeys(S) ==
  CHOOSE o \in Orders(S) : \A i \in 1..(Len(o) - 1) : Less(o[i], o[i + 1])

\* json.MarshalIndent(b): the members of the object, name and value
MarshalIndentText(b) ==
  [i \in 1..Cardinality(DOMAIN b) |->
     [key |-> appendString(sortedKeys(DOMAIN b)[i], 1),
      value |-> b[sortedKeys(DOMAIN b)[i]]]]

\* json.Unmarshal into a map: member after member, a later member with the
\* same name replaces the earlier one
RECURSIVE UnmarshalText(_, _)
UnmarshalText(t, acc) ==
  IF t = <<>> THEN acc
  ELSE UnmarshalText(Tail(t),
         [q \in DOMAIN acc \cup {unquote(Head(t).key, 1)} |->
            IF q = unquote(Head(t).key, 1) THEN Head(t).value ELSE acc[q]])

\* createBaseline writes the map it has built
PersistBaseline ==
  /\ op = "init"
  /\ op' = "create"
  /\ text' = MarshalIndentText(mem)
  /\ UNCHANGED <<fs, artifact, files, report, err, mdir, args, hashed, wr,
                 out, exit, meta, since, mem>>
  /\ NoNet

\* verifyBaseline reads the document into a new map
LoadBaseline ==
  /\ op = "create"
  /\ op' = "verify"
  /\ mem' = UnmarshalText(text, EmptyMap)
  /\ UNCHANGED <<fs, artifact, files, report, err, mdir, args, hashed, wr,
                 out, exit, meta, since, text>>
  /\ NoNet

RoundTripInit ==
  InitFiles /\ mem \in ByteBaselines /\ text = <<>> /\ InitNet
RoundTripNext == PersistBaseline \/ LoadBaseline
RoundTripSpec == RoundTripInit /\ [][RoundTripNext]_vars

\* --------------------------------------------- files with their metadata
\* One tracked file with the metadata that hashFile never looks at.  fs is
\* what os.Open and io.Copy give for the file behind it: its bytes, or an
\* error when it is absent or its mode denies reading (the monitor does
\* not run as root).
MaxTime == 1         \* latest modification time

Tracked == "/m/a.txt"
Times == 0..MaxTime
Seen(m) ==
  IF ~m.exists THEN ENOENT ELSE IF m.mode = "0000" THEN EACCES ELSE m.bytes

\* the file at p becomes m by an operation of the given kind
SetMeta(p, m, kind) ==
  /\ meta' = [meta EXCEPT ![p] = m]
  /\ fs' = [fs EXCEPT ![p] = Seen(m)]
  /\ since' = [since EXCEPT ![p] = @ \cup {kind}]
  /\ Forget
  /\ UNCHANGED <<artifact, mdir, mem, text>>
  /\ NoNet

Touch(p, t) ==
  /\ meta[p].exists /\ t # meta[p].mtime
  /\ SetMeta(p, [meta[p] EXCEPT !.mtime = t], "touch")

Chmod(p, m) ==
  /\ meta[p].exists /\ m # meta[p].mode
  /\ SetMeta(p, [meta[p] EXCEPT !.mode = m], "chmod")

Rewrite(p, c, t) ==
  /\ meta[p].exists /\ meta[p].mode # "0000" /\ c # meta[p].bytes
  /\ SetMeta(p, [meta[p] EXCEPT !.bytes = c, !.mtime = t], "write")

Unlink(p) ==
  /\ meta[p].exists
  /\ SetMeta(p, NoFile, "remove")

Creat(p, c, t) ==
  /\ ~meta[p].exists
  /\ SetMeta(p, [exists |-> TRUE, bytes |-> c, mtime |-> t, mode |-> "0644"],
             "create")

ContentLists == UNION {[1..n -> {Tracked}] : n \in 1..MaxFiles}

ContentNext ==
  \/ \E t \in Times : Touch(Tracked, t)
  \/ \E m \in Modes : Chmod(Tracked, m)
  \/ \E c \in Contents, t \in Times : Rewrite(Tracked, c, t)
  \/ Unlink(Tracked)
  \/ \E c \in Contents, t \in Times : Creat(Tracked, c, t)
  \/ \E fl \in ContentLists : CreateBaseline(fl)
  \/ \E fl \in ContentLists : VerifyBaseline(fl)

ContentSpec == Init /\ [][ContentNext]_vars

\* ------------------------------ baseline and report among the files
\* The README usage: a run that creates the baseline and then a run that
\* verifies it over the same directory /m, with nobody else changing a
\* file.  The baseline and the -o report may lie in /m (at the paths
\* /m/c.txt and /m/b.txt) or outside of it; a file in /m holds the bytes
\* that the run wrote to it.
PathOrder == <<"/m/a.txt", "/m/b.txt", "/m/c.txt">>

\* the bytes of a baseline document and of a rendered report
RECURSIVE memberText(_, _)
memberText(obj, ks) ==
  IF ks = <<>> THEN ""
  ELSE (IF Head(ks) \in DOMAIN obj
          THEN Head(ks) \o ":" \o obj[Head(ks)] \o ","
          ELSE "") \o memberText(obj, Tail(ks))
DocText(doc) == "{" \o memberText(doc.obj, PathOrder) \o "}"
RECURSIVE ReportText(_)
ReportText(r) ==
  IF r = <<>> THEN "report"
  ELSE ReportText(SubSeq(r, 1, Len(r) - 1))
         \o "," \o r[Len(r)].Path \o ":" \o r[Len(r)].Status

InTreeBaseline == "/m/c.txt"
InTreeOutput == "/m/b.txt"
MonitoredDir == PathText(FALSE, <<"m">>)
ReadmeCommands ==
  [path : {MonitoredDir}, input : {EmptyText}, lines : {<<>>},
   createB : {"", BaselineFile, InTreeBaseline},
   verifyB : {"", BaselineFile, InTreeBaseline},
   output : {"", InTreeOutput}]

\* main, lines 181-211: the mode is checked and the -o file created (and
\* emptied) before any path is collected.  The second run verifies the
\* baseline that the first one created.
StartMain(a) ==
  /\ \/ op = "init" /\ modeOf(a.createB, a.verifyB) = "create"
     \/ /\ op = "create" /\ err = "nil"
        /\ modeOf(a.createB, a.verifyB) = "verify"
        /\ a.verifyB = args.createB
  /\ op' = "started"
  /\ args' = a
  /\ fs' = IF a.output # "" THEN [fs EXCEPT ![a.output] = ""] ELSE fs
  /\ UNCHANGED <<artifact, files, report, err, mdir, hashed, wr, out, exit,
                 meta, since, mem, text>>
  /\ NoNet

\* main, lines 213-229, with a write that succeeds
FinishCreate ==
  /\ op = "started" /\ modeOf(args.createB, args.verifyB) = "create"
  /\ op' = "create"
  /\ \E c \in {collected(args)} :
       \E b \in {createBaseline(artifact, c.files, "ok")} :
         /\ files' = c.files
         /\ hashed' = found(c.files)
         /\ artifact' = b.artifact
         /\ fs' = IF args.createB \in Paths
                    THEN [fs EXCEPT ![args.createB] = DocText(b.artifact)]
                    ELSE fs
         /\ err' = b.err
  /\ wr' = "ok"
  /\ exit' = "0"
  /\ UNCHANGED <<report, mdir, args, out, meta, since, mem, text>>
  /\ NoNet

\* main, lines 213-248
FinishVerify ==
  /\ op = "started" /\ modeOf(args.createB, args.verifyB) = "verify"
  /\ op' = "verify"
  /\ \E c \in {collected(args)} :
       \E order \in Orders(unseen(Unmarshal(artifact).base,
                                   found(c.files))) :
         \E v \in {verifyBaseline(artifact, c.files, order)} :
           /\ files' = c.files
           /\ hashed' = v.hashed
           /\ report' = v.report
           /\ err' = v.err
           /\ out' = writeReport(v.report)
           /\ fs' = IF args.output # ""
                      THEN [fs EXCEPT ![args.output] = ReportText(v.report)]
                      ELSE fs
           /\ exit' = IF Len(v.report) > 0 THEN "1" ELSE "0"
  /\ wr' = "none"
  /\ UNCHANGED <<artifact, mdir, args, meta, since, mem, text>>
  /\ NoNet

ReadmeInit ==
  /\ fs \in [Paths -> FileStates]
  /\ fs[InTreeBaseline] = ENOENT
  /\ fs[InTreeOutput] # EACCES
  /\ artifact = NoArtifact
  /\ op = "init"
  /\ files = <<>> /\ report = <<>> /\ err = "nil"
  /\ mdir = "dir" /\ args = NoArgs /\ hashed = {}
  /\ wr = "none" /\ out = <<>> /\ exit = "none"
  /\ meta = [p \in Paths |-> NoFile] /\ since = NoOps
  /\ mem = EmptyMap /\ text = <<>>
  /\ InitNet

ReadmeNext ==
  \/ \E a \in ReadmeCommands : StartMain(a)
  \/ FinishCreate
  \/ FinishVerify

ReadmeSpec == ReadmeInit /\ [][ReadmeNext]_vars

\* ------------------------------------------- the ssl certificate checker
\* go/06_ssl_cert_expiry_checker: checkCertExpiry on one host.  Time is
\* counted in hours: left is the time until NotAfter at the moment of the
\* check, negative when NotAfter has passed.
MaxHours == 72       \* longest time before or after NotAfter, in hours
MaxWarn == 2         \* largest warnThreshold, in days

\* int(x / 24) of Go: the conversion truncates toward zero
daysLeft(left) ==
  IF left >= 0 THEN left \div 24 ELSE 0 - ((0 - left) \div 24)

statusOf(days, warnThreshold) ==
  IF days < 0 THEN "EXPIRED"
  ELSE IF days <= warnThreshold THEN "EXPIRING SOON"
  ELSE "VALID"

\* checkCertExpiry: the connection fails, the peer shows no certificate,
\* or the first certificate is judged
CheckCertExpiry ==
  /\ op = "init"
  /\ op' = "check"
  /\ cert' = IF cert.reach # "ok"
              THEN [cert EXCEPT !.status = "ERROR"]
              ELSE [cert EXCEPT !.days = daysLeft(cert.left),
                                !.status = statusOf(daysLeft(cert.left),
                                                    cert.warn)]
  /\ UNCHANGED <<fs, artifact, files, report, err, mdir, args, hashed, wr,
                 out, exit, meta, since, mem, text, workers, ch, got,
                 mainpc>>

CertInit ==
  /\ InitFiles /\ mem = EmptyMap /\ text = <<>>
  /\ cert \in [reach : {"ok", "dial", "nocert"},
                left : (0 - MaxHours)..MaxHours,
                warn : 0..MaxWarn, status : {""}, days : {0}]
  /\ workers = <<>> /\ ch = <<>> /\ got = <<>> /\ mainpc = "none"
CertNext == CheckCertExpiry
CertSpec == CertInit /\ [][CertNext]_vars

\* ------------------------------------- fan-out and fan-in of the checks
\* main of the service monitor, the certificate checker and the header
\* scanner: a channel with room for one result per target, one goroutine
\* per target that sends the result of its check, and a loop in main that
\* receives as many results as there are targets before the report is
\* written.  workers[i] is the goroutine started for the i-th target.
MaxTargets == 3      \* most targets of a run

TargetNames == {"a:443", "b:443"}
Outcomes == {"UP", "DOWN"}
TargetLists == UNION {[1..n -> TargetNames] : n \in 0..MaxTargets}
Result(t, s) == [target |-> t, status |-> s]

\* a channel with room for all but one of the results
Capacity_short == Len(workers) - 1

\* make(chan Result, len(targets))
Capacity == Len(workers)

\* the goroutines main has not started yet
Unstarted == {i \in DOMAIN workers : workers[i].pc = "new"}

NoFim ==
  UNCHANGED <<fs, artifact, op, files, report, err, mdir, args, hashed, wr,
              exit, meta, since, mem, text, cert>>

\* go func(t) {...}(target) for the next target of the range loop; the
\* certificate checker and the header scanner then sleep
Go(i) ==
  /\ mainpc = "spawn"
  /\ i \in Unstarted /\ \A j \in Unstarted : i <= j
  /\ workers' = [workers EXCEPT ![i].pc = "check"]
  /\ mainpc' \in {"spawn", "sleep"}
  /\ UNCHANGED <<ch, got, out>> /\ NoFim

\* time.Sleep returns
Sleep ==
  /\ mainpc = "sleep"
  /\ mainpc' = "spawn"
  /\ UNCHANGED <<workers, ch, got, out>> /\ NoFim

\* the range loop over the targets ends
Spawned ==
  /\ mainpc = "spawn" /\ Unstarted = {}
  /\ mainpc' = "recv"
  /\ UNCHANGED <<workers, ch, got, out>> /\ NoFim

\* the check of goroutine i returns its result, within the timeout
Check(i, s) ==
  /\ i \in DOMAIN workers /\ workers[i].pc = "check"
  /\ workers' = [workers EXCEPT ![i].pc = "send", ![i].status = s]
  /\ UNCHANGED <<ch, got, mainpc, out>> /\ NoFim

\* results <- ...: goroutine i sends when the buffer has room, and ends
Send(i) ==
  /\ i \in DOMAIN workers /\ workers[i].pc = "send"
  /\ Len(ch) < Capacity
  /\ ch' = Append(ch, Result(workers[i].target, workers[i].status))
  /\ workers' = [workers EXCEPT ![i].pc = "done"]
  /\ UNCHANGED <<got, mainpc, out>> /\ NoFim

\* append(results, <-ch) in the loop that counts to len(targets)
Receive ==
  /\ mainpc = "recv" /\ Len(got) < Len(workers)
  /\ ch # <<>>
  /\ got' = Append(got, Head(ch))
  /\ ch' = Tail(ch)
  /\ UNCHANGED <<workers, mainpc, out>> /\ NoFim

\* the receive loop ends
Received ==
  /\ mainpc = "recv" /\ Len(got) >= Len(workers)
  /\ mainpc' = "write"
  /\ UNCHANGED <<workers, ch, got, out>> /\ NoFim

\* writeReport(results, output): a title and the lines of every result
RECURSIVE resultLines(_)
resultLines(rs) ==
  IF rs = <<>> THEN <<>>
  ELSE <<"Target: " \o Head(rs).target, "Status: " \o Head(rs).status>>
         \o resultLines(Tail(rs))

WriteResults ==
  /\ mainpc = "write"
  /\ out' = <<"--- Report ---">> \o resultLines(got)
  /\ mainpc' = "done"
  /\ UNCHANGED <<workers, ch, got>> /\ NoFim

FanInit ==
  /\ InitFiles /\ mem = EmptyMap /\ text = <<>> /\ cert = NoCert
  /\ \E ts \in TargetLists :
       workers = [i \in DOMAIN ts |->
                    [target |-> ts[i], pc |-> "new", status |-> ""]]
  /\ ch = <<>> /\ got = <<>> /\ mainpc = "spawn"

MainStep ==
  \/ \E i \in 1..MaxTargets : Go(i)
  \/ Sleep
  \/ Spawned
  \/ Receive
  \/ Received
  \/ WriteResults

WorkerStep(i) ==
  \/ \E s \in Outcomes : Check(i, s)
  \/ Send(i)

FanNext ==
  \/ MainStep
  \/ \E i \in 1..MaxTargets : WorkerStep(i)

\* the scheduler runs every goroutine that can take a step
FanSpec ==
  /\ FanInit /\ [][FanNext]_vars
  /\ WF_vars(MainStep)
  /\ \A i \in 1..MaxTargets : WF_vars(WorkerStep(i))


Documents ==
  {NoArtifact, Garbage} \cup
  {[exists |-> TRUE, syntax |-> TRUE, obj |-> o] :
     o \in UNION {[S -> JsonValues] : S \in SUBSET Paths}}

TypeOK ==
  /\ fs \in [Paths -> FileStates]
  /\ artifact \in Documents
  /\ Unmarshal(artifact).base \in Baseline
  /\ op \in {"init", "env", "create", "verify"}
  /\ files \in FileLists
  /\ \A i \in DOMAIN report :
       /\ report[i].Path \in Paths
       /\ report[i].Status \in {"OK", "MODIFIED", "ADDED", "DELETED"}
  /\ err \in {"nil", "read", "write"}

\* ------------------------------------------------ vocabulary of the claims
\* the state right after a verifyBaseline that returned a report
Verified == op = "verify" /\ err = "nil"

\* the baseline verifyBaseline worked with, and the outcome of hashing p
Loaded == Unmarshal(artifact).base
Readable(p) == fs[p] \in Contents
Current(p) == Sha256Hex(fs[p])

Listed == {files[i] : i \in DOMAIN files}
Occurrences(p) == Cardinality({i \in DOMAIN files : files[i] = p})
EntriesFor(p) == {i \in DOMAIN report : report[i].Path = p}
Has(p, status) == \E i \in EntriesFor(p) : report[i].Status = status
NoDuplicates(fl) == \A i, j \in DOMAIN fl : fl[i] = fl[j] => i = j

\* C1: every path of (baseline keys) \cup (current paths) has exactly one
\* entry in the returned report and no other path has an entry.
C1_ExactlyOnce ==
  Verified =>
    \A p \in Paths :
      Cardinality(EntriesFor(p)) =
        IF p \in DOMAIN Loaded \cup Listed THEN 1 ELSE 0

\* C2: two consecutive verifyBaseline runs over the same baseline document,
\* the same current paths and an unchanged filesystem return the same
\* report sequence (every step between two "verify" states is such a run).
C2_Idempotent ==
  [][(Verified /\ op' = "verify" /\ files' = files) => report' = report]_vars

\* C3: a path is reported MODIFIED iff it is listed, its hash was computed,
\* it is a baseline key and the digests differ; the entry carries the
\* baseline digest as old and the current digest as new.
C3_Modified ==
  Verified =>
    /\ \A p \in Paths :
         Has(p, "MODIFIED") <=>
           /\ p \in Listed
           /\ Readable(p)
           /\ p \in DOMAIN Loaded
           /\ Loaded[p] # Current(p)
    /\ \A i \in DOMAIN report :
         report[i].Status = "MODIFIED" =>
           /\ report[i].OldHash = Loaded[report[i].Path]
           /\ report[i].NewHash = Current(report[i].Path)

C3_Witness ==
  /\ Verified
  /\ \E i \in DOMAIN report :
       /\ report[i].Status = "MODIFIED"
       /\ report[i].OldHash # report[i].NewHash
       /\ report[i].OldHash \in Digests

\* C4: a path is reported OK iff it is listed, its hash was computed, it is
\* a baseline key and the digests are equal; and a verifyBaseline that
\* directly follows a createBaseline over the same duplicate-free list
\* returns exactly one OK entry per file of the baseline and nothing else.
C4_OkIff ==
  Verified =>
    \A p \in Paths :
      Has(p, "OK") <=>
        /\ p \in Listed
        /\ Readable(p)
        /\ p \in DOMAIN Loaded
        /\ Loaded[p] = Current(p)

C4_Unchanged ==
  (/\ op = "create" /\ err = "nil"
   /\ op' = "verify" /\ files' = files /\ NoDuplicates(files))
  => /\ err' = "nil"
     /\ Len(report') = Cardinality(DOMAIN Loaded)
     /\ \A i \in DOMAIN report' : report'[i].Status = "OK"
     /\ \A p \in Listed :
          Readable(p) => \E i \in DOMAIN report' : report'[i].Path = p

C5_Added ==
  Verified =>
    /\ \A p \in Paths :
         Has(p, "ADDED") <=>
           (p \in Listed /\ Readable(p) /\ p \notin DOMAIN Loaded)
    /\ \A i \in DOMAIN report :
         report[i].Status = "ADDED" =>
           /\ report[i].OldHash = ""
           /\ report[i].NewHash = Current(report[i].Path)
    /\ (Loaded = EmptyMap /\ Len(files) = 1 /\ Readable(files[1])) =>
         /\ Len(report) = 1
         /\ report[1].Path = files[1]
         /\ report[1].Status = "ADDED"

C5_Witness ==
  /\ Verified
  /\ artifact = MarshalIndent(EmptyMap)
  /\ Len(files) = 1
  /\ Len(report) = 1
  /\ report[1].Status = "ADDED"
  /\ report[1].NewHash \in Digests

\* C6: every baseline key that is not listed has exactly one entry, DELETED
\* with the baseline digest as old and no new digest; a listed path has only
\* the entries the loop over the list gave it (one per occurrence, none when
\* its hash failed and it is not a baseline key), so the sweep adds none.
C6_Sweep ==
  Verified =>
    /\ \A p \in DOMAIN Loaded \ Listed :
         /\ Cardinality(EntriesFor(p)) = 1
         /\ \A i \in EntriesFor(p) :
              /\ report[i].Status = "DELETED"
              /\ report[i].OldHash = Loaded[p]
              /\ report[i].NewHash = ""
    /\ \A p \in Listed :
         Cardinality(EntriesFor(p)) =
           IF Readable(p) \/ p \in DOMAIN Loaded THEN Occurrences(p) ELSE 0

C6_Witness ==
  /\ Verified
  /\ \E p \in DOMAIN Loaded \ Listed : Has(p, "DELETED")
  /\ \E p \in DOMAIN Loaded \cap Listed : ~Readable(p) /\ Has(p, "DELETED")
  /\ \E p \in DOMAIN Loaded \cap Listed : Readable(p)

\* C7: a listed path whose hash fails and that is a baseline key gets a
\* DELETED entry with the baseline digest as old and no new digest.
C7_FailedTracked ==
  Verified =>
    \A p \in Listed :
      (~Readable(p) /\ p \in DOMAIN Loaded) =>
        \E i \in EntriesFor(p) :
          /\ report[i].Status = "DELETED"
          /\ report[i].OldHash = Loaded[p]
          /\ report[i].NewHash = ""

C7_Witness ==
  /\ Verified
  /\ \E p \in Listed :
       /\ fs[p] = EACCES
       /\ p \in DOMAIN Loaded
       /\ Has(p, "DELETED")
  /\ \E p \in Listed :
       /\ fs[p] = ENOENT
       /\ p \in DOMAIN Loaded
       /\ Has(p, "DELETED")

\* C8: a listed path whose hash fails and that is not a baseline key has an
\* entry in the report, with a classification of its own.
C8_FailedUntracked ==
  Verified =>
    \A p \in Listed :
      (~Readable(p) /\ p \notin DOMAIN Loaded) =>
        \E i \in EntriesFor(p) :
          report[i].Status \notin {"OK", "MODIFIED", "ADDED", "DELETED"}

\* C9: in every entry of a report over a well-formed baseline document the
\* old digest is non-empty exactly for OK, MODIFIED and DELETED, and the new
\* digest is non-empty exactly for OK, MODIFIED and ADDED.
C9_DigestFields ==
  (Verified /\ Unmarshal(artifact).err = "nil") =>
    \A i \in DOMAIN report :
      /\ report[i].OldHash # "" <=>
           report[i].Status \in {"OK", "MODIFIED", "DELETED"}
      /\ report[i].NewHash # "" <=>
           report[i].Status \in {"OK", "MODIFIED", "ADDED"}

\* C10: when the baseline document can be read but is not a valid
\* path-to-digest document, verifyBaseline returns an error and no entries.
C10_InvalidFails ==
  (op = "verify" /\ artifact.exists /\ Unmarshal(artifact).err # "nil") =>
    (err # "nil" /\ report = <<>>)

\* C12: whenever the baseline document can be read, verifyBaseline returns a
\* nil error whatever the outcome of hashing each listed file, and the files
\* that could be hashed are still reported.
C12_HashFailureNotFatal ==
  (op = "verify" /\ artifact.exists) =>
    /\ err = "nil"
    /\ \A p \in Listed : Readable(p) => EntriesFor(p) # {}

C12_Witness ==
  /\ op = "verify" /\ err = "nil"
  /\ \E p \in Listed : fs[p] = ENOENT
  /\ \E p \in Listed : fs[p] = EACCES

C11_UnreadableBaseline ==
  (op = "verify" /\ err # "collect" /\ ~artifact.exists) =>
    /\ err = "read"
    /\ report = <<>>
    /\ hashed = {}
    /\ out = <<>>
    /\ exit = "1"

\* a verifying run over collected files that found no baseline artifact
C11_Witness ==
  /\ op = "verify" /\ ~artifact.exists /\ err = "read"
  /\ \E i \in DOMAIN files : hashFile(files[i]).err = FALSE

\* C14: createBaseline returns an error exactly when writing the artifact
\* fails, whatever happened to the hashes of the files, and a run whose
\* write failed exits non-zero
C14_CreateFailsIffWrite ==
  (op = "create" /\ err # "collect") =>
    /\ err # "nil" <=> wr # "ok"
    /\ wr # "ok" => exit = "1"
    /\ wr = "ok" => exit = "0"

\* a baseline written by a run that could not hash one of its files
C14_Witness ==
  /\ op = "create" /\ wr = "ok" /\ err = "nil" /\ exit = "0"
  /\ \E i \in DOMAIN files : hashFile(files[i]).err
  /\ \E i \in DOMAIN files : ~hashFile(files[i]).err

\* C17: the files collected by a run contain no path twice, also when a
\* file is reachable through two entries of the list
C17_NoDuplicates ==
  (op \in {"create", "verify"} /\ err # "collect") => NoDuplicates(files)

\* the run of the current state: its targets, and those that exist
Ran == op \in {"create", "verify"}
Targets == targets(args.path, listOf(args), baseDirOf(args))
Resolved(t) == Str(Abs(t))
Missing(t) == Stat(Resolved(t)) = ENOENT
Present == SelectSeq(Targets, LAMBDA t : ~Missing(t))

\* C18: a list entry whose resolved path does not exist changes neither
\* the error nor the files collected from the other entries, and when its
\* path is a key of the baseline the report has exactly one entry for it,
\* a DELETED one
C18_MissingEntrySkipped ==
  (Ran /\ Len(args.lines) > 0) =>
    /\ err = "collect" <=> addAll(Present, <<>>).err # "nil"
    /\ err # "collect" => files = addAll(Present, <<>>).files
    /\ (op = "verify" /\ err = "nil") =>
         \A i \in DOMAIN Targets :
           (Missing(Targets[i]) /\ Resolved(Targets[i]) \in DOMAIN Loaded) =>
             /\ Cardinality(EntriesFor(Resolved(Targets[i]))) = 1
             /\ Has(Resolved(Targets[i]), "DELETED")

\* a verified list whose first entry is a baseline key that no longer
\* exists and whose second entry was collected
C18_Witness ==
  /\ op = "verify" /\ err = "nil" /\ Len(Targets) = 2
  /\ Missing(Targets[1]) /\ Resolved(Targets[1]) \in DOMAIN Loaded
  /\ ~Missing(Targets[2]) /\ files # <<>>
  /\ Has(Resolved(Targets[1]), "DELETED")

\* the names that are absolute paths of the tree
AbsoluteNames == {"/", "/m"} \cup Paths
\* the files that exist below the directory a target resolves to
Below(t) == {q \in Paths : Stat(Resolved(t)) = "dir" /\ fs[q] # ENOENT}

\* C19: every collected path is absolute and not a directory, and every
\* file below a directory that was a target is collected
C19_OnlyFiles ==
  (Ran /\ err # "collect") =>
    /\ \A i \in DOMAIN files :
         files[i] \in AbsoluteNames /\ Stat(files[i]) # "dir"
    /\ \A i \in DOMAIN Targets : Below(Targets[i]) \subseteq Listed

\* where the i-th line of the list is to be looked for: an absolute line
\* as it is, a relative one below the directory of the list
Entry(i) ==
  IF IsAbs(Clean(args.lines[i])) THEN Str(Clean(args.lines[i]))
  ELSE Str(Abs(Join(baseDirOf(args), Clean(args.lines[i]))))

\* C20: with a list, the collected files are the same for every root, each
\* line that names a file is collected under the name Entry gives it and
\* every collected file comes from some line; without a list the files are
\* those of the root
C20_PathResolution ==
  (Ran /\ err # "collect") =>
    IF Len(args.lines) > 0
      THEN /\ \A r \in PathArgs :
                collectFiles(r, listOf(args), baseDirOf(args)).files = files
           /\ \A i \in DOMAIN args.lines :
                Stat(Entry(i)) = "file" => Entry(i) \in Listed
           /\ \A f \in Listed : \E i \in DOMAIN args.lines :
                Entry(i) = f \/ Stat(Entry(i)) = "dir"
      ELSE files = addFile(args.path, <<>>).files

\* a run over a list with a relative and an absolute line that name files
C20_Witness ==
  /\ Ran /\ err # "collect" /\ Len(args.lines) = 2
  /\ ~IsAbs(args.lines[1]) /\ Stat(Entry(1)) = "file"
  /\ IsAbs(args.lines[2]) /\ Stat(Entry(2)) = "file"
  /\ files = <<Entry(1), Entry(2)>>

\* C15: the map that verifyBaseline loads from the document createBaseline
\* wrote equals the map that was written, whatever its keys
C15_RoundTrip ==
  [][(op = "create" /\ op' = "verify") => mem' = mem]_vars

\* the tracked file has the bytes whose digest the baseline holds
SameBytes(p) ==
  meta[p].exists /\ p \in DOMAIN Loaded
    /\ Loaded[p] = Sha256Hex(meta[p].bytes)
AllEntries(p, status) ==
  EntriesFor(p) # {} /\ \A i \in EntriesFor(p) : report[i].Status = status

\* C16 as stated: a tracked file whose bytes equal its baseline bytes is
\* classified OK, whatever was done to it since the baseline was written
C16_ContentOnly ==
  Verified => \A p \in Listed : SameBytes(p) => AllEntries(p, "OK")

\* the classification by the baseline digest, the bytes and whether the
\* file can be read
Expected(p) ==
  IF meta[p].mode = "0000" THEN "DELETED"
  ELSE IF Loaded[p] = Sha256Hex(meta[p].bytes) THEN "OK"
  ELSE "MODIFIED"

\* C16, amended: the classification of an existing tracked file is
\* determined by its baseline digest, its bytes and whether it can be read;
\* with bytes equal to the baseline bytes it is OK when the file can be
\* read and DELETED when it cannot, never MODIFIED
C16_ContentOnlyReadable ==
  Verified =>
    \A p \in Listed :
      (meta[p].exists /\ p \in DOMAIN Loaded) =>
        /\ AllEntries(p, Expected(p))
        /\ SameBytes(p) => ~Has(p, "MODIFIED")

\* the file verified OK after it was touched, had its mode changed, was
\* modified and restored, and was deleted and created again
C16_Witness ==
  /\ Verified /\ Tracked \in Listed /\ SameBytes(Tracked)
  /\ AllEntries(Tracked, "OK")
  /\ since[Tracked] = {"touch", "chmod", "write", "remove", "create"}
  /\ meta[Tracked].mode = "0600" /\ meta[Tracked].mtime # 0

\* the run had no list and its root does not exist, or is a directory
\* that cannot be walked to the end
RootUnwalkable ==
  /\ Len(args.lines) = 0
  /\ \/ Stat(Resolved(args.path)) = ENOENT
     \/ /\ Stat(Resolved(args.path)) = "dir"
        /\ walk(Resolved(args.path), <<>>).err # "nil"

\* C21: a run whose root cannot be walked fails in collectFiles: it exits
\* non-zero, has hashed no file, written no baseline and no report
C21_RootFailure ==
  (Ran /\ RootUnwalkable) =>
    /\ err = "collect"
    /\ exit = "1"
    /\ hashed = {}
    /\ wr = "none"
    /\ out = <<>>

\* C22: a verification that returned a report exits 1 when some entry is
\* not OK and 0 when every entry is OK
C22_ExitStatus ==
  (op = "verify" /\ err = "nil" /\ exit # "none") =>
    IF \E i \in DOMAIN report : report[i].Status # "OK"
      THEN exit = "1" ELSE exit = "0"

\* C23: a step of verifyBaseline changes neither the baseline document nor
\* any monitored file or its metadata, whatever it returns, and the
\* document changes only in a step of createBaseline
C23_ReadOnly ==
  [][/\ op' = "verify" => UNCHANGED <<artifact, fs, meta>>
     /\ artifact' # artifact => op' = "create"]_vars

\* a verification that returned entries although the document at the
\* baseline location is not JSON
C23_Witness ==
  /\ op = "verify" /\ err = "nil" /\ report # <<>>
  /\ artifact.exists /\ ~artifact.syntax

\* C24: a run goes on to collect, hash and write exactly when one of the
\* two flags is given; with both or neither it exits 1 having collected
\* and hashed nothing and written neither baseline nor report
C24_ModeSelection ==
  [][(op' \in {"create", "verify", "usage"}) =>
       /\ op' = "usage" <=> ((args'.createB = "") = (args'.verifyB = ""))
       /\ op' = "usage" =>
            /\ exit' = "1"
            /\ files' = <<>> /\ hashed' = {}
            /\ wr' = "none" /\ out' = <<>>
            /\ UNCHANGED <<artifact, fs>>]_vars

\* a run with both flags, over files that exist
C24_Witness ==
  /\ op = "usage" /\ exit = "1"
  /\ args.createB # "" /\ args.verifyB # ""
  /\ collected(args).files # <<>>

\* C25: a certificate whose NotAfter has passed is EXPIRED, an unexpired
\* one with at most warnThreshold whole days left is EXPIRING SOON, any
\* other is VALID
C25_CertStatus ==
  (op = "check" /\ cert.reach = "ok") =>
    cert.status = IF cert.left < 0 THEN "EXPIRED"
                  ELSE IF cert.left \div 24 <= cert.warn THEN "EXPIRING SOON"
                  ELSE "VALID"

\* C26: a verification that follows a creation over the same directory,
\* with no file changed by anyone else, reports every entry as OK,
\* wherever the baseline and the report file lie
C26_CreateThenVerify ==
  (op = "verify" /\ err = "nil") =>
    \A i \in DOMAIN report : report[i].Status = "OK"

ListedEntries == {i \in DOMAIN report : report[i].Path \in Listed}

\* C28: the entries for listed paths come first and follow the order of
\* the list; every entry for a path outside the list is a DELETED entry
\* and comes after all of them
C28_ReportOrder ==
  (op = "verify" /\ err = "nil") =>
    /\ ListedEntries = 1..Cardinality(ListedEntries)
    /\ \E at \in [ListedEntries -> DOMAIN files] :
         /\ \A i \in ListedEntries : files[at[i]] = report[i].Path
         /\ \A i, j \in ListedEntries : i < j => at[i] < at[j]
    /\ \A j \in DOMAIN report \ ListedEntries :
         /\ report[j].Status = "DELETED"
         /\ report[j].Path \in DOMAIN Loaded

\* a report with two entries for different listed paths and a DELETED
\* entry of the sweep
C28_Witness ==
  /\ op = "verify" /\ err = "nil"
  /\ \E i, j \in ListedEntries : report[i].Path # report[j].Path
  /\ DOMAIN report # ListedEntries

\* the lines of the list of the last run without the blank ones
NonBlank(lines) == SelectSeq(lines, LAMBDA l : l # EmptyText)

\* C29: a run over a list with blank lines collects the set of files it
\* collects over the same list without them
C29_BlankLine ==
  (op \in {"create", "verify"} /\ args.input # EmptyText) =>
    found(files) =
      found(collected([args EXCEPT !.lines = NonBlank(args.lines)]).files)

\* how often target t is listed, and how often it has a result
ListedTimes(t) == Cardinality({i \in DOMAIN workers : workers[i].target = t})
ResultTimes(t) == Cardinality({i \in DOMAIN got : got[i].target = t})

\* what holds in every state of a run of the three mains
FanSafe ==
  /\ \A i \in DOMAIN workers : workers[i].pc = "send" => Len(ch) < Capacity
  /\ (mainpc = "recv" /\ Len(got) < Len(workers) /\ ch = <<>>) =>
       \E i \in DOMAIN workers : workers[i].pc \in {"check", "send"}
  /\ mainpc \in {"write", "done"} =>
       /\ Len(got) = Len(workers) /\ ch = <<>>
       /\ \A i \in DOMAIN workers : workers[i].pc = "done"
       /\ \A t \in TargetNames : ResultTimes(t) = ListedTimes(t)
  /\ out # <<>> =>
       /\ mainpc = "done"
       /\ out = <<"--- Report ---">> \o resultLines(got)

\* C30: with one goroutine per target and a channel with room for every
\* result, no goroutine ever waits at its send, main never waits for a
\* result that nobody will send, the report is written only when all
\* results are in, with one result per listed target, and every run gets
\* to the written report
C30_FanOutFanIn == []FanSafe /\ <>(mainpc = "done")

\* a finished run over the most targets whose results came in another
\* order than the targets are listed
C30_Witness ==
  /\ mainpc = "done" /\ Len(workers) = MaxTargets
  /\ Len(got) = MaxTargets
  /\ got[1].target # workers[1].target

====
